---- MODULE Spec2Model ----
(***************************************************************************)
(* Model of static/dropdown-interface.js (class DropdownInterface): the   *)
(* selector row of the chat debug interface, its site-list retrieval      *)
(* (getSites) and the event handlers it wires onto the host chat          *)
(* interface.                                                              *)
(*                                                                         *)
(* JavaScript strings are sequences of one-character strings, so that     *)
(* toLowerCase, trim, localeCompare and escapeHtml are computed on the     *)
(* characters.  JavaScript values that may or may not be strings (the      *)
(* elements of the server's list, host.site) are tagged records.           *)
(***************************************************************************)
EXTENDS Integers, Sequences, FiniteSets, TLC

\* ------------------------------------------------------------------ bounds
\* longest 'sites' list the server sends
MaxSites == 3
\* number of user events (clicks, changes, typing, blur) per behaviour
MaxEvents == 3

\* ------------------------------------------------------- JavaScript values
Str(s) == [t |-> "string", v |-> s]
Num42 == [t |-> "number", v |-> <<"4", "2">>]
Undefined == [t |-> "undefined", v |-> <<>>]

IsString(x) == x.t = "string"

\* ToBoolean: the empty string, null and undefined are falsy
Truthy(x) == \/ x.t = "string" /\ x.v # <<>>
             \/ x.t = "number"

\* site names used in the enumerated inputs
sAll == <<"a", "l", "l">>
sA == <<"a">>
sBAmp == <<"B", "&">>

\* ------------------------------------------------------- string functions
LowerChar(c) ==
  CASE c = "A" -> "a"
    [] c = "B" -> "b"
    [] OTHER -> c

\* String.prototype.toLowerCase
ToLowerCase(s) == [i \in 1..Len(s) |-> LowerChar(s[i])]

\* collation order of the characters that occur: white space and
\* punctuation before digits before letters
Collation == <<" ", "_", "&", "<", ">", ";", "2", "4",
               "a", "b", "c", "d", "e", "f", "g", "h", "i", "l", "m", "n",
               "o", "p", "r", "s", "t", "u", "v", "y", "z">>

CollRank(c) ==
  LET lc == LowerChar(c)
  IN  IF \E i \in 1..Len(Collation) : Collation[i] = lc
        THEN CHOOSE i \in 1..Len(Collation) : Collation[i] = lc
        ELSE Len(Collation) + 1

\* primary-strength comparison, character by character; a proper prefix
\* sorts first
RECURSIVE PrimaryCompare(_, _)
PrimaryCompare(a, b) ==
  IF a = <<>> /\ b = <<>> THEN 0
  ELSE IF a = <<>> THEN -1
  ELSE IF b = <<>> THEN 1
  ELSE IF CollRank(Head(a)) < CollRank(Head(b)) THEN -1
  ELSE IF CollRank(Head(a)) > CollRank(Head(b)) THEN 1
  ELSE PrimaryCompare(Tail(a), Tail(b))

\* case difference breaks a primary tie: lower case before upper case
RECURSIVE CaseCompare(_, _)
CaseCompare(a, b) ==
  IF a = <<>> \/ b = <<>> THEN 0
  ELSE IF Head(a) = Head(b) THEN CaseCompare(Tail(a), Tail(b))
  ELSE IF LowerChar(Head(a)) = Head(a) THEN -1
  ELSE 1

\* String.prototype.localeCompare
LocaleCompare(a, b) ==
  IF PrimaryCompare(a, b) # 0 THEN PrimaryCompare(a, b) ELSE CaseCompare(a, b)

IsSpace(c) == c = " "

RECURSIVE TrimStart(_)
TrimStart(s) ==
  IF s # <<>> /\ IsSpace(Head(s)) THEN TrimStart(Tail(s)) ELSE s

RECURSIVE TrimEnd(_)
TrimEnd(s) ==
  IF s # <<>> /\ IsSpace(s[Len(s)]) THEN TrimEnd(SubSeq(s, 1, Len(s) - 1)) ELSE s

\* String.prototype.trim
Trim(s) == TrimEnd(TrimStart(s))

EscapeChar(c) ==
  CASE c = "&" -> <<"&", "a", "m", "p", ";">>
    [] c = "<" -> <<"&", "l", "t", ";">>
    [] c = ">" -> <<"&", "g", "t", ";">>
    [] OTHER -> <<c>>

RECURSIVE EscapeChars(_)
EscapeChars(s) ==
  IF s = <<>> THEN <<>> ELSE EscapeChar(Head(s)) \o EscapeChars(Tail(s))

\* what escapeHtml does with an argument that is not a string is not
\* specified: it either throws or yields the empty string
EscapeOutcomes == {"throws", "empty"}

\* escapeHtml (utils.js) of a JavaScript value
escapeHtml(x, nonString) ==
  IF IsString(x) THEN [threw |-> FALSE, value |-> EscapeChars(x.v)]
  ELSE IF nonString = "throws" THEN [threw |-> TRUE, value |-> <<>>]
  ELSE [threw |-> FALSE, value |-> <<>>]

\* --------------------------------------------------------------- getSites
FallbackSites ==
  << Str(sAll),
     Str(<<"e", "v", "e", "n", "t", "b", "r", "i", "t", "e">>),
     Str(<<"o", "r", "e", "i", "l", "l", "y">>),
     Str(<<"s", "c", "i", "f", "i", "_", "m", "o", "v", "i", "e", "s">>),
     Str(<<"v", "e", "r", "g", "e">>) >>

\* (a, b) => a.toLowerCase().localeCompare(b.toLowerCase()), on strings
SiteComparator(a, b) == LocaleCompare(ToLowerCase(a.v), ToLowerCase(b.v))

\* insert x behind every element that does not sort after it (stable)
RECURSIVE InsertSorted(_, _)
InsertSorted(sorted, x) ==
  IF sorted = <<>> THEN <<x>>
  ELSE IF SiteComparator(x, Head(sorted)) < 0 THEN <<x>> \o sorted
  ELSE <<Head(sorted)>> \o InsertSorted(Tail(sorted), x)

RECURSIVE StableSort(_)
StableSort(list) ==
  IF list = <<>> THEN <<>>
  ELSE InsertSorted(StableSort(SubSeq(list, 1, Len(list) - 1)), list[Len(list)])

\* sites.sort(comparator): the comparator is called on every element of a
\* list of two or more, and throws a TypeError on one that has no
\* toLowerCase; a list of fewer than two elements is never compared
SortSites(list) ==
  IF Len(list) >= 2 /\ \E i \in 1..Len(list) : ~IsString(list[i])
    THEN [threw |-> TRUE, value |-> <<>>]
    ELSE [threw |-> FALSE, value |-> StableSort(list)]

\* sites.filter(site => site !== 'all')
FilterNotAll(list) == SelectSeq(list, LAMBDA x : x # Str(sAll))

\* sites.includes('all')
IncludesAll(list) == \E i \in 1..Len(list) : list[i] = Str(sAll)

\* 'all' put in front without removing the one that is there
AllFirstUnshiftOnly(sorted) == <<Str(sAll)>> \o sorted

\* lines 333-341: 'all' to the front, once
AllFirst(sorted) ==
  IF ~IncludesAll(sorted) THEN <<Str(sAll)>> \o sorted
  ELSE <<Str(sAll)>> \o FilterNotAll(sorted)

\* the shape test of line 327 on the parsed body
ExpectedStructure(data) ==
  /\ data.kind = "object"
  /\ data.messageType = "sites"
  /\ data.sitesIsArray

\* the body of the try block of getSites; resp is the settled request
GetSitesTry(resp) ==
  IF resp.kind = "network_error" THEN [threw |-> TRUE, value |-> <<>>]
  ELSE IF ~resp.ok THEN [threw |-> TRUE, value |-> <<>>]
  ELSE IF resp.body.kind = "unparseable" THEN [threw |-> TRUE, value |-> <<>>]
  ELSE IF ExpectedStructure(resp.body)
    THEN IF SortSites(resp.body.sites).threw
           THEN [threw |-> TRUE, value |-> <<>>]
           ELSE [threw |-> FALSE, value |-> AllFirst(SortSites(resp.body.sites).value)]
    ELSE [threw |-> FALSE, value |-> FallbackSites]

\* getSites without its catch clause: a failure reaches the caller
getSitesNoCatch(resp) == GetSitesTry(resp)

\* getSites: the try block, with the catch clause of lines 347-351
getSites(resp) ==
  IF GetSitesTry(resp).threw
    THEN [threw |-> FALSE, value |-> FallbackSites]
    ELSE GetSitesTry(resp)

\* getGenerateModes
getGenerateModes ==
  << <<"l", "i", "s", "t">>,
     <<"s", "u", "m", "m", "a", "r", "i", "z", "e">>,
     <<"g", "e", "n", "e", "r", "a", "t", "e">> >>

\* ------------------------------------------------------------- DOM model
\* an element of the selector row
El(tag, name, text) == [tag |-> tag, name |-> name, text |-> text]

\* makeSelectorLabel
makeSelectorLabel(label) == El("span", "selector-label", EscapeChars(label))

LabelSite == <<"S", "i", "t", "e">>
LabelMode == <<"M", "o", "d", "e">>
LabelContextUrl == <<"C", "o", "n", "t", "e", "x", "t", " ", "U", "R", "L">>

\* a select element: its options in tree order and the index of the
\* selected one (0: none)
EmptySelect == [options |-> <<>>, selected |-> 0]

Option(value, text, disabled) == [value |-> value, text |-> text, disabled |-> disabled]

\* appendChild(option): a drop-down without a selected option selects the
\* first option that is not disabled
AppendOption(sel, opt) ==
  [options |-> Append(sel.options, opt),
   selected |-> IF sel.selected = 0 /\ ~opt.disabled
                  THEN Len(sel.options) + 1 ELSE sel.selected]

\* select.value = v: the first option with that value, or none
SetSelectValue(sel, v) ==
  [sel EXCEPT !.selected =
     IF \E i \in 1..Len(sel.options) : sel.options[i].value = v
       THEN CHOOSE i \in 1..Len(sel.options) :
              /\ sel.options[i].value = v
              /\ \A j \in 1..(i - 1) : sel.options[j].value # v
       ELSE 0]

\* select.value
SelectValue(sel) ==
  IF sel.selected = 0 THEN <<>> ELSE sel.options[sel.selected].value

\* lines 77-81: the select with its temporary loading option
LoadingText == <<"L", "o", "a", "d", "i", "n", "g", " ", "s", "i", "t", "e", "s", ".", ".", ".">>

LoadingSelect == AppendOption(EmptySelect, Option(<<>>, LoadingText, TRUE))

\* sites.forEach(site => ... appendChild(option)), values and labels escaped
RECURSIVE AppendSiteOptions(_, _, _)
AppendSiteOptions(sel, sites, nonString) ==
  IF sites = <<>> THEN sel
  ELSE AppendSiteOptions(
         AppendOption(sel, Option(escapeHtml(Head(sites), nonString).value,
                                  escapeHtml(Head(sites), nonString).value, FALSE)),
         Tail(sites), nonString)

Includes(list, x) == \E i \in 1..Len(list) : list[i] = x

\* lines 88-108, the try block of createSiteDropdown once getSites has
\* settled with `fetched`; hostSite is chatInterface.site
SiteDropdownTry(fetched, hostSite, nonString) ==
  IF fetched.threw THEN [threw |-> TRUE, select |-> EmptySelect, site |-> hostSite]
  ELSE IF \E i \in 1..Len(fetched.value) : escapeHtml(fetched.value[i], nonString).threw
    THEN [threw |-> TRUE, select |-> EmptySelect, site |-> hostSite]
  ELSE LET sites == fetched.value
           filled == AppendSiteOptions(EmptySelect, sites, nonString)
       IN  IF Truthy(hostSite) /\ Includes(sites, hostSite)
             THEN [threw |-> escapeHtml(hostSite, nonString).threw,
                   select |-> SetSelectValue(filled, escapeHtml(hostSite, nonString).value),
                   site |-> hostSite]
           ELSE IF Len(sites) > 0
             THEN [threw |-> FALSE,
                   select |-> SetSelectValue(filled, escapeHtml(sites[1], nonString).value),
                   site |-> sites[1]]
           ELSE [threw |-> FALSE, select |-> filled, site |-> hostSite]

\* createSiteDropdown from line 88 on: the try block, or the catch clause of
\* lines 109-120 with the fallback options
SiteDropdownFilled(fetched, hostSite, nonString) ==
  IF SiteDropdownTry(fetched, hostSite, nonString).threw
    THEN [select |-> AppendSiteOptions(EmptySelect, FallbackSites, nonString),
          site |-> hostSite]
    ELSE [select |-> SiteDropdownTry(fetched, hostSite, nonString).select,
          site |-> SiteDropdownTry(fetched, hostSite, nonString).site]

\* the handlers without the trim
SiteInputSiteNoTrim(value) == IF value = <<>> THEN Str(sAll) ELSE Str(value)

\* the site the text input's handlers store: siteInput.value.trim() || 'all'
SiteInputSite(value) == IF Trim(value) = <<>> THEN Str(sAll) ELSE Str(Trim(value))

\* the initial value without the default of line 168
SiteTextInputInitialNoDefault(hostSite) ==
  IF Truthy(hostSite)
    THEN [value |-> hostSite.v, site |-> hostSite]
    ELSE [value |-> <<>>, site |-> hostSite]

\* lines 163-169: initial value of the text input and of chatInterface.site
SiteTextInputInitial(hostSite) ==
  IF Truthy(hostSite)
    THEN [value |-> hostSite.v, site |-> hostSite]
    ELSE [value |-> <<>>, site |-> Str(sAll)]

\* createGenerateModeSelector: one option per mode, then
\* generateModeSelect.value = escapeHtml(chatInterface.generate_mode)
RECURSIVE AppendModeOptions(_, _)
AppendModeOptions(sel, modes) ==
  IF modes = <<>> THEN sel
  ELSE AppendModeOptions(
         AppendOption(sel, Option(EscapeChars(Head(modes)), EscapeChars(Head(modes)), FALSE)),
         Tail(modes))

GenerateModeSelectInitial(hostMode) ==
  SetSelectValue(AppendModeOptions(EmptySelect, getGenerateModes), EscapeChars(hostMode.v))

\* ------------------------------------------------------------------ inputs
\* elements of the server's 'sites' list
SiteElems == {Str(sAll), Str(sA), Str(sBAmp), Num42}

SiteLists == UNION {[1..n -> SiteElems] : n \in 0..MaxSites}

Body(kind, messageType, sitesIsArray, sites) ==
  [kind |-> kind, messageType |-> messageType, sitesIsArray |-> sitesIsArray, sites |-> sites]

\* what response.json() settles with: a rejection, or the parsed body
Bodies ==
  {Body("unparseable", "", FALSE, <<>>), Body("null", "", FALSE, <<>>),
   Body("object", "other", TRUE, <<Str(sA)>>), Body("object", "sites", FALSE, <<>>)}
  \cup {Body("object", "sites", TRUE, l) : l \in SiteLists}

NoBody == Body("none", "", FALSE, <<>>)

\* what fetch settles with: a rejection, or a response with its ok flag
FetchOutcomes ==
  {[kind |-> "network_error", ok |-> FALSE, body |-> NoBody],
   [kind |-> "http", ok |-> FALSE, body |-> NoBody],
   [kind |-> "http", ok |-> TRUE, body |-> NoBody]}

\* chatInterface.site and chatInterface.generate_mode before the panel exists
HostSites == {Undefined, Str(<<>>), Str(sA), Str(sBAmp)}

HostModes == {Str(getGenerateModes[2])}

\* what the user types into the site input
InputValues == {<<>>, <<" ", " ">>, <<" ", "a", " ">>, <<"a", " ", "B">>}

\* ------------------------------------------------------------------- state
VARIABLES
  pc,                   \* "new", "fetching", "parsing", "ready"
  useTextInputForSite,  \* options.useTextInputForSite
  site,                 \* chatInterface.site
  generate_mode,        \* chatInterface.generate_mode
  debug_mode,           \* chatInterface.debug_mode
  bubble,               \* chatInterface.bubble.innerHTML
  hostSlots,            \* controls exposed on chatInterface
  siteSelect,           \* the site drop-down
  siteInput,            \* the site text input's value
  generateModeSelect,   \* the mode drop-down
  selector,             \* children of the selector row, in order
  container,            \* children of the container
  listeners,            \* wired handlers, <<element, event>>
  response,             \* the settled part of the request
  fetched,              \* what getSites settled with
  site0,                \* chatInterface.site when the panel was constructed
  debug0,               \* chatInterface.debug_mode when it was constructed
  lastEvent,            \* the handler that ran last
  lastEffects,          \* what it did to the host, in order
  events,               \* user events so far
  clicks,               \* clicks on the debug icon so far
  resortCalls           \* calls of chatInterface.resortResults so far

vars == <<pc, useTextInputForSite, site, generate_mode, debug_mode, bubble,
          hostSlots, siteSelect, siteInput, generateModeSelect, selector,
          container, listeners, response, fetched, site0, debug0, lastEvent,
          lastEffects, events, clicks, resortCalls>>

hostVars == <<site, generate_mode, debug_mode, bubble>>
domVars == <<hostSlots, siteSelect, siteInput, generateModeSelect, selector,
             container, listeners>>
fetchVars == <<response, fetched>>
historyVars == <<site0, debug0>>

NotFetched == [threw |-> FALSE, value |-> <<>>]

Init ==
  /\ pc = "new"
  /\ useTextInputForSite \in BOOLEAN
  /\ site \in HostSites
  /\ generate_mode \in HostModes
  /\ debug_mode \in BOOLEAN
  /\ bubble = "results"
  /\ hostSlots = {}
  /\ siteSelect = EmptySelect
  /\ siteInput = <<>>
  /\ generateModeSelect = EmptySelect
  /\ selector = <<>>
  /\ container = <<>>
  /\ listeners = {}
  /\ response = [kind |-> "none", ok |-> FALSE, body |-> NoBody]
  /\ fetched = NotFetched
  /\ site0 = site
  /\ debug0 = debug_mode
  /\ lastEvent = "none"
  /\ lastEffects = <<>>
  /\ events = 0
  /\ clicks = 0
  /\ resortCalls = 0

\* ------------------------------------------------- building the selector row
\* what createSiteDropdown appends before it awaits getSites (lines 83-84)
SiteDropdownRow == <<makeSelectorLabel(LabelSite), El("select", "siteSelect", <<>>)>>

\* what createSiteTextInput appends (lines 147-148)
SiteTextInputRow == <<makeSelectorLabel(LabelSite), El("input", "site-input", <<>>)>>

\* what createSelectors appends after the site control (lines 47-63)
OtherControlsRow ==
  << makeSelectorLabel(LabelMode), El("select", "generateModeSelect", <<>>),
     El("span", "clearIcon", <<>>), El("span", "debugIcon", <<>>),
     El("div", "context_url_div", <<>>) >>

OtherListeners ==
  {<<"generateModeSelect", "change">>, <<"clearIcon", "click">>, <<"debugIcon", "click">>}

\* lines 47-66 of createSelectors: the controls behind the site control,
\* then the row is prepended to the container
createOtherControls(row, wired, slots) ==
  /\ generateModeSelect' = GenerateModeSelectInitial(generate_mode)
  /\ selector' = row \o OtherControlsRow
  /\ listeners' = wired \cup OtherListeners
  /\ hostSlots' = slots \cup {"generateModeSelect", "context_url"}
  /\ container' = <<"site-selector">> \o container

\* createSiteDropdown from line 88 on, then the rest of createSelectors
afterGetSites(result, nonString) ==
  /\ fetched' = result
  /\ siteSelect' = SiteDropdownFilled(result, site, nonString).select
  /\ site' = SiteDropdownFilled(result, site, nonString).site
  /\ createOtherControls(selector, listeners \cup {<<"siteSelect", "change">>},
                         hostSlots \cup {"siteSelect"})
  /\ pc' = "ready"
  /\ lastEvent' = "construct"
  /\ UNCHANGED <<siteInput, generate_mode, debug_mode, bubble>>

\* new DropdownInterface(chatInterface, container, options): createSelectors
\* runs up to its first await, or to its end in the text-input variant
constructor ==
  /\ pc = "new"
  /\ IF useTextInputForSite
       THEN /\ siteInput' = SiteTextInputInitial(site).value
            /\ site' = SiteTextInputInitial(site).site
            /\ createOtherControls(SiteTextInputRow,
                 {<<"siteInput", "change">>, <<"siteInput", "blur">>}, {"siteInput"})
            /\ pc' = "ready"
            /\ lastEvent' = "construct"
            /\ UNCHANGED siteSelect
       ELSE /\ siteSelect' = LoadingSelect
            /\ selector' = SiteDropdownRow
            /\ pc' = "fetching"
            /\ UNCHANGED <<site, siteInput, generateModeSelect, listeners,
                           hostSlots, container, lastEvent>>
  /\ UNCHANGED <<useTextInputForSite, generate_mode, debug_mode, bubble,
                 fetchVars, historyVars, lastEffects, events, clicks, resortCalls>>

\* fetch('/sites?streaming=false') settles: getSites goes on to
\* response.json(), or ends in its catch clause
fetchSettles ==
  /\ pc = "fetching"
  /\ \E outcome \in FetchOutcomes, nonString \in EscapeOutcomes :
       /\ response' = outcome
       /\ IF outcome.kind = "http" /\ outcome.ok
            THEN /\ pc' = "parsing"
                 /\ UNCHANGED <<hostVars, domVars, fetched, lastEvent>>
            ELSE afterGetSites(getSites(outcome), nonString)
  /\ UNCHANGED <<useTextInputForSite, historyVars, lastEffects, events, clicks,
                 resortCalls>>

\* response.json() settles: getSites returns and construction completes
jsonSettles ==
  /\ pc = "parsing"
  /\ \E body \in Bodies, nonString \in EscapeOutcomes :
       /\ response' = [response EXCEPT !.body = body]
       /\ afterGetSites(getSites([response EXCEPT !.body = body]), nonString)
  /\ UNCHANGED <<useTextInputForSite, historyVars, lastEffects, events, clicks,
                 resortCalls>>

\* ------------------------------------------------------------- user events
\* the user can act on a control once its row is in the container
Attached == Len(container) > 0 /\ container[1] = "site-selector"

CanFire(element, event) ==
  /\ Attached
  /\ <<element, event>> \in listeners
  /\ events < MaxEvents

\* the options the user can change a drop-down to
Selectable(sel) ==
  {i \in 1..Len(sel.options) : ~sel.options[i].disabled /\ i # sel.selected}

\* line 123: chatInterface.site = siteSelect.value
SiteSelectSite(sel) == Str(SelectValue(sel))

\* 'change' on the site drop-down (lines 122-125)
siteSelectChange ==
  /\ CanFire("siteSelect", "change")
  /\ \E i \in Selectable(siteSelect) :
       /\ siteSelect' = [siteSelect EXCEPT !.selected = i]
       /\ site' = SiteSelectSite([siteSelect EXCEPT !.selected = i])
  /\ lastEvent' = "siteSelect.change"
  /\ lastEffects' = <<"site", "resetChatState">>
  /\ events' = events + 1
  /\ UNCHANGED <<pc, useTextInputForSite, generate_mode, debug_mode, bubble,
                 hostSlots, siteInput, generateModeSelect, selector, container,
                 listeners, fetchVars, historyVars, clicks, resortCalls>>

\* the user edits the site input; no handler listens to it
siteInputType ==
  /\ Attached
  /\ useTextInputForSite
  /\ events < MaxEvents
  /\ \E v \in InputValues : v # siteInput /\ siteInput' = v
  /\ lastEvent' = "siteInput.input"
  /\ lastEffects' = <<>>
  /\ events' = events + 1
  /\ UNCHANGED <<pc, useTextInputForSite, hostVars, hostSlots, siteSelect,
                 generateModeSelect, selector, container, listeners, fetchVars,
                 historyVars, clicks, resortCalls>>

\* the handler of lines 150-154 and of lines 157-161
siteInputHandler(event) ==
  /\ CanFire("siteInput", event)
  /\ site' = SiteInputSite(siteInput)
  /\ lastEffects' = <<"site", "resetChatState">>
  /\ events' = events + 1
  /\ UNCHANGED <<pc, useTextInputForSite, generate_mode, debug_mode, bubble,
                 domVars, fetchVars, historyVars, clicks, resortCalls>>

\* 'change' on the site input
siteInputChange ==
  /\ siteInputHandler("change")
  /\ lastEvent' = "siteInput.change"

\* 'blur' on the site input
siteInputBlur ==
  /\ siteInputHandler("blur")
  /\ lastEvent' = "siteInput.blur"

\* 'change' on the mode drop-down (lines 192-195)
generateModeSelectChange ==
  /\ CanFire("generateModeSelect", "change")
  /\ \E i \in Selectable(generateModeSelect) :
       /\ generateModeSelect' = [generateModeSelect EXCEPT !.selected = i]
       /\ generate_mode' = Str(generateModeSelect.options[i].value)
  /\ lastEvent' = "generateModeSelect.change"
  /\ lastEffects' = <<"generate_mode", "resetChatState">>
  /\ events' = events + 1
  /\ UNCHANGED <<pc, useTextInputForSite, site, debug_mode, bubble, hostSlots,
                 siteSelect, siteInput, selector, container, listeners,
                 fetchVars, historyVars, clicks, resortCalls>>

\* 'click' on the clear icon (lines 246-248)
clearIconClick ==
  /\ CanFire("clearIcon", "click")
  /\ lastEvent' = "clearIcon.click"
  /\ lastEffects' = <<"resetChatState">>
  /\ events' = events + 1
  /\ UNCHANGED <<pc, useTextInputForSite, hostVars, domVars, fetchVars,
                 historyVars, clicks, resortCalls>>

\* the click handler with resortResults called on both branches
DebugToggleAlwaysResort(mode) ==
  IF mode
    THEN [debug_mode |-> FALSE, bubble |-> "",
          effects |-> <<"debug_mode=false", "bubble=''", "resortResults">>]
    ELSE [debug_mode |-> TRUE, bubble |-> "debugString",
          effects |-> <<"debug_mode=true", "createDebugString", "bubble=debugString",
                        "resortResults">>]

\* the click handler of the debug icon (lines 264-273) on
\* chatInterface.debug_mode
DebugToggle(mode) ==
  IF mode
    THEN [debug_mode |-> FALSE, bubble |-> "",
          effects |-> <<"debug_mode=false", "bubble=''", "resortResults">>]
    ELSE [debug_mode |-> TRUE, bubble |-> "debugString",
          effects |-> <<"debug_mode=true", "createDebugString", "bubble=debugString">>]

Count(effects, name) == Cardinality({i \in 1..Len(effects) : effects[i] = name})

\* 'click' on the debug icon
debugIconClick ==
  /\ CanFire("debugIcon", "click")
  /\ debug_mode' = DebugToggle(debug_mode).debug_mode
  /\ bubble' = DebugToggle(debug_mode).bubble
  /\ lastEffects' = DebugToggle(debug_mode).effects
  /\ resortCalls' = resortCalls + Count(DebugToggle(debug_mode).effects, "resortResults")
  /\ clicks' = clicks + 1
  /\ lastEvent' = "debugIcon.click"
  /\ events' = events + 1
  /\ UNCHANGED <<pc, useTextInputForSite, site, generate_mode, domVars,
                 fetchVars, historyVars>>

Next ==
  \/ constructor
  \/ fetchSettles
  \/ jsonSettles
  \/ siteSelectChange
  \/ siteInputType
  \/ siteInputChange
  \/ siteInputBlur
  \/ generateModeSelectChange
  \/ clearIconClick
  \/ debugIconClick

Spec == Init /\ [][Next]_vars

\* ------------------------------------------------------------------ claims
\* the dropdown variant has its site list
DropdownReady == pc = "ready" /\ ~useTextInputForSite

\* the text-input variant has been constructed
TextInputReady == pc = "ready" /\ useTextInputForSite

AllStrings(list) == \A i \in 1..Len(list) : IsString(list[i])

\* the request as getSites saw it ended in one of the failures of the claim
FetchFailure ==
  \/ response.kind = "network_error"
  \/ response.kind = "http" /\ ~response.ok
  \/ /\ response.kind = "http"
     /\ response.ok
     /\ \/ response.body.kind # "object"
        \/ response.body.messageType # "sites"
        \/ ~response.body.sitesIsArray
        \/ ~AllStrings(response.body.sites)

\* the request ended in a body of the expected shape with a list of strings
FetchSuccess ==
  /\ response.kind = "http"
  /\ response.ok
  /\ response.body.kind = "object"
  /\ response.body.messageType = "sites"
  /\ response.body.sitesIsArray
  /\ AllStrings(response.body.sites)

Occurrences(list, x) == Cardinality({i \in 1..Len(list) : list[i] = x})

\* C1: whatever the request ends in, getSites completes with a list that is
\* not empty and starts with "all"; it never ends in an error.
C1_GetSitesNeverThrows ==
  DropdownReady =>
    /\ ~fetched.threw
    /\ Len(fetched.value) > 0
    /\ fetched.value[1] = Str(sAll)

\* C1 witness: a body that fails to parse, and getSites has returned
C1_Witness ==
  /\ DropdownReady
  /\ response.kind = "http"
  /\ response.ok
  /\ response.body.kind = "unparseable"
  /\ ~fetched.threw

\* C2: after any fetch failure (network error, bad status, wrong
\* discriminator, 'sites' not a list, 'sites' not a list of strings) the
\* list getSites returns is exactly the fallback list.
C2_FailureGivesFallback ==
  DropdownReady /\ FetchFailure => fetched.value = FallbackSites

\* C3: after a successful fetch of a list S of strings the result is "all",
\* once and in front, followed by the other elements of S, each as often as
\* in S, in case-insensitive order.
C3_AllThenSorted ==
  DropdownReady /\ FetchSuccess =>
    LET S == response.body.sites
        R == fetched.value
    IN  /\ Len(R) = 1 + Len(S) - Occurrences(S, Str(sAll))
        /\ R[1] = Str(sAll)
        /\ Occurrences(R, Str(sAll)) = 1
        /\ \A x \in SiteElems \ {Str(sAll)} : Occurrences(R, x) = Occurrences(S, x)
        /\ \A i, j \in 2..Len(R) :
             i < j => LocaleCompare(ToLowerCase(R[i].v), ToLowerCase(R[j].v)) <= 0

\* C3 witness: S holds "all" in the middle and two names out of order
C3_Witness ==
  /\ DropdownReady
  /\ FetchSuccess
  /\ response.body.sites = <<Str(sBAmp), Str(sAll), Str(sA)>>
  /\ fetched.value = <<Str(sAll), Str(sA), Str(sBAmp)>>

\* C4: no site name occurs at two positions of the list getSites returns.
C4_UniqueNames ==
  DropdownReady =>
    \A i, j \in 1..Len(fetched.value) :
      i # j => fetched.value[i] # fetched.value[j]

\* C5: while the fetch is pending the site control shows its disabled
\* loading entry and every other control is built, wired and in the
\* container.
C5_OthersDoNotWait ==
  pc \in {"fetching", "parsing"} =>
    /\ siteSelect = LoadingSelect
    /\ OtherListeners \subseteq listeners
    /\ {"generateModeSelect", "context_url"} \subseteq hostSlots
    /\ \A k \in 1..Len(OtherControlsRow) :
         \E m \in 1..Len(selector) : selector[m] = OtherControlsRow[k]
    /\ Attached

\* C6: from debug_mode = false, after k clicks debug_mode is true exactly
\* when k is odd and resortResults has run floor(k/2) times; a click that
\* turns debugging on sets debug_mode and then fills the display from
\* createDebugString, a click that turns it off clears debug_mode and the
\* display and then calls resortResults once.
C6_DebugToggle ==
  debug0 = FALSE =>
    /\ debug_mode <=> (clicks % 2 = 1)
    /\ resortCalls = clicks \div 2
    /\ lastEvent = "debugIcon.click" =>
         IF debug_mode
           THEN /\ lastEffects = <<"debug_mode=true", "createDebugString", "bubble=debugString">>
                /\ bubble = "debugString"
           ELSE /\ lastEffects = <<"debug_mode=false", "bubble=''", "resortResults">>
                /\ bubble = ""

\* C6 witness: three clicks, the second of which turned debugging off
C6_Witness ==
  /\ debug0 = FALSE
  /\ clicks = 3
  /\ resortCalls = 1
  /\ debug_mode
  /\ lastEvent = "debugIcon.click"

\* C7: once the list L of site names is there, the selected value is
\* host.site when that is set and in L (host.site unchanged), and else is
\* the first element of L, which host.site is set to.
C7_InitialSelection ==
  DropdownReady /\ events = 0 /\ AllStrings(fetched.value) =>
    LET L == fetched.value
    IN  IF Truthy(site0) /\ Includes(L, site0)
          THEN Str(SelectValue(siteSelect)) = site0 /\ site = site0
          ELSE Str(SelectValue(siteSelect)) = L[1] /\ site = L[1]

\* t is s without its leading and trailing white space
IsTrimOf(t, s) ==
  \E i \in 0..Len(s) : \E j \in 0..(Len(s) - i) :
    /\ t = SubSeq(s, i + 1, Len(s) - j)
    /\ \A k \in 1..i : s[k] = " "
    /\ \A k \in (Len(s) - j + 1)..Len(s) : s[k] = " "
    /\ t # <<>> => t[1] # " " /\ t[Len(t)] # " "

\* C8: a 'change' or 'blur' on the site input sets host.site to the
\* trimmed value, or to "all" when nothing is left, and calls
\* resetChatState once; host.site is never empty.
C8_TextInputTrims ==
  /\ lastEvent \in {"siteInput.change", "siteInput.blur"} =>
       /\ \E i \in 0..Len(siteInput) : \E j \in 0..(Len(siteInput) - i) :
            LET t == SubSeq(siteInput, i + 1, Len(siteInput) - j)
            IN  /\ IsTrimOf(t, siteInput)
                /\ site = IF t = <<>> THEN Str(sAll) ELSE Str(t)
       /\ lastEffects = <<"site", "resetChatState">>
  /\ TextInputReady => IsString(site) /\ site.v # <<>>

\* C8 witness: white space only, then 'change'
C8_Witness ==
  /\ lastEvent = "siteInput.change"
  /\ siteInput = <<" ", " ">>
  /\ site = Str(sAll)

\* C9 as stated: right after construction the input's value is the host's
\* site, or "all" when the host's site is unset, and host.site is then "all"
\* too.
C9_InputShowsAll ==
  TextInputReady /\ events = 0 =>
    /\ Truthy(site0) => siteInput = site0.v /\ site = site0
    /\ site0 = Undefined => siteInput = sAll /\ site = Str(sAll)

\* C9 amended: right after construction the input's value is the host's
\* site when the host has a non-empty one; when it has none the input is
\* left empty and host.site is set to "all".
C9_InputEmptyHostAll ==
  TextInputReady /\ events = 0 =>
    IF Truthy(site0)
      THEN siteInput = site0.v /\ site = site0
      ELSE siteInput = <<>> /\ site = Str(sAll)

\* C9 witness: constructed for a host without a site
C9_Witness ==
  /\ TextInputReady
  /\ events = 0
  /\ site0 = Undefined
  /\ siteInput = <<>>
  /\ site = Str(sAll)

\* C10: after a 'change' on the site drop-down host.site is an element of
\* the list L of site names the drop-down was built from.
C10_SiteStaysInList ==
  /\ DropdownReady
  /\ AllStrings(fetched.value)
  /\ lastEvent = "siteSelect.change"
  => Includes(fetched.value, site)

====
